---- MODULE Spec2Model ----
(***************************************************************************)
(* react-griditty: the state-sync hook useLayoutState and the GridLayout   *)
(* component (drag / resize gesture controller) as a state machine.        *)
(*                                                                         *)
(* React is modelled by what the component code relies on:                 *)
(*   - a hook state (drag, resize, the hook's snapshot) holds the value    *)
(*     the next render will see; a render copies the hook states and the   *)
(*     props into the closure `r` that the callbacks of that render read;  *)
(*   - passive effects run after the render, as a step of their own: they  *)
(*     clean up the previous run and (re)register the window listeners     *)
(*     and the store subscription, which capture the closure of the        *)
(*     render they belong to;                                              *)
(*   - updates made in a discrete event (mousedown, mouseup) are flushed   *)
(*     (render + effects) before any further event is delivered; updates   *)
(*     made in a mousemove, in a store notification or by a prop change    *)
(*     are rendered later, and further events may arrive before that.      *)
(***************************************************************************)
EXTENDS Integers, Sequences, FiniteSets, TLC

\* ------------------------------------------------------------------ bounds
\* events delivered in one run (pointer events, external store changes,
\* replacements of the store prop)
MaxEvents == 4

\* inputs of the coordinate transforms under SpecTransform: cell sizes
\* 1..MaxCell, column counts 1..MaxColumns, pixel offsets 0..MaxPixel, grid
\* positions 0..MaxGrid
MaxCell == 3
MaxColumns == 4
MaxPixel == 14
MaxGrid == 5

\* --------------------------------------------------------------- constants
\* cellWidth / cellHeight props (px) of the component under Spec
cellWidth == 6
cellHeight == 6
\* container-relative pointer positions <<pixelX, pixelY>> of a tick
Pointers == {<<-6, -6>>, <<9, 15>>, <<60, 9>>}
\* the ticks of the model: a pointer position and the container width
\* (rect.width) measured at that tick: 24, a multiple of every column count
\* used, so that rect.width / columns is an integer, or 0
Ticks ==
  {<<p, 24>> : p \in Pointers} \cup {<<<<0, 9>>, 0>>}
Buttons == {0, 2}
\* inputs of the transforms under SpecTransform, with the cell size 100 and
\* the pixel offset 250 of a 4-column layout resized by a pointer at (250, 250)
CellSizes == (1..MaxCell) \cup {100}
ColumnCounts == 1..MaxColumns
Pixels == (0..MaxPixel) \cup {250}
Ids == {"a", "b"}
Stores == {"s1", "s2"}

\* ----------------------------------------------------- JavaScript numbers
\* Non-finite results of a division, kept apart from every pixel and grid
\* value of the model.
NaN == -999999
PosInf == 888888
NegInf == -888888
IsFinite(n) == n # NaN /\ n # PosInf /\ n # NegInf
\* a <= b, false when either is NaN
Leq(a, b) == a # NaN /\ b # NaN /\ a <= b

\* Math.min / Math.max: NaN if an argument is NaN
MathMin(a, b) == IF a = NaN \/ b = NaN THEN NaN ELSE IF a < b THEN a ELSE b
MathMax(a, b) == IF a = NaN \/ b = NaN THEN NaN ELSE IF a > b THEN a ELSE b

\* Math.round(p / q) for integers p and q >= 0: nearest integer, halves
\* towards +Infinity; p / 0 is +-Infinity, 0 / 0 is NaN
\* (mutant) halves towards -Infinity
RoundDivHalfDown(p, q) ==
  IF q = 0
  THEN IF p = 0 THEN NaN ELSE IF p > 0 THEN PosInf ELSE NegInf
  ELSE (2 * p + q - 1) \div (2 * q)
RoundDiv(p, q) ==
  IF q = 0
  THEN IF p = 0 THEN NaN ELSE IF p > 0 THEN PosInf ELSE NegInf
  ELSE (2 * p + q) \div (2 * q)

\* T | null
Null == <<>>
Some(v) == <<v>>
Val(o) == o[1]

\* ------------------------------------------------- coordinate transforms
\* the useCallback transforms, with the props they close over (cw: the
\* cellWidth prop, ch: the cellHeight prop) as parameters
\* (mutant) no upper clamp
pixelToGridXNoClamp(pixelX, cw, columns) == MathMax(0, RoundDiv(pixelX, cw))
pixelToGridX(pixelX, cw, columns) ==
  MathMax(0, MathMin(columns - 1, RoundDiv(pixelX, cw)))
\* (mutant) rows start at 1
pixelToGridYMinOne(pixelY, ch) == MathMax(1, RoundDiv(pixelY, ch))
pixelToGridY(pixelY, ch) == MathMax(0, RoundDiv(pixelY, ch))
pixelToGridW(pixelW, cw) == MathMax(1, RoundDiv(pixelW, cw))
pixelToGridH(pixelH, ch) == MathMax(1, RoundDiv(pixelH, ch))

\* fluid mode: cell width from the measured container width
getCellWidthFromRect(width, columns, cw) ==
  IF columns > 0 THEN width \div columns ELSE cw


\* ------------------------------------------------------------------ state
VARIABLES
  cfg,          \* props that stay fixed: mode, hook, columnsProp, draggable,
                \* resizable, cellWidth, cellHeight
  store,        \* the store prop
  storeState,   \* each store's committed LayoutState
  subs,         \* each store's number of listeners subscribed by the hook
  mounted,      \* the component is mounted (containerRef.current is set)
  snap,         \* useLayoutState's state
  drag,         \* GridLayout's drag state (null or {id, gridX, gridY})
  resize,       \* GridLayout's resize state (null or {id, startW, startH})
  r,            \* closure of the last render: drag, resize, snap, store
  hookEff,      \* deps of the last run of the hook's effect (null: never ran)
  dragEff,      \* closure of the last run of the drag effect (null: never ran)
  resizeEff,    \* closure of the last run of the resize effect
  listeners,    \* listeners registered on window
  needRender,   \* an update is pending
  needEffects,  \* the passive effects of the last render are pending
  sync,         \* the pending work is flushed before the next event
  out,          \* history: the actions dispatched by the last step
  lastEv,       \* history: the kind of the last step
  g,            \* history: the gesture started by the last pointer-down
  overlap,      \* history: a pointer-down started a gesture while one was active
  since,        \* history: notifications seen since the hook's effect last ran
  dn,           \* history: the pointer-down the last step delivered
  cnt,          \* history: events delivered so far
  calc          \* the last application of a coordinate transform (SpecTransform)

vars == <<cfg, store, storeState, subs, mounted, snap, drag, resize, r, hookEff,
          dragEff, resizeEff, listeners, needRender, needEffects, sync, out,
          lastEv, g, overlap, since, dn, cnt, calc>>

\* -------------------------------------------------------------- the store
\* (@dashboardity/layout-store: consumed, not part of the sources)
Item(x, y, w, h) == [x |-> x, y |-> y, w |-> w, h |-> h]
MoveAction(id, x, y) == [type |-> "move", id |-> id, x |-> x, y |-> y]
ResizeAction(id, w, h) == [type |-> "resize", id |-> id, w |-> w, h |-> h]

\* the reducer: applies a move / resize of a present item whose values are
\* valid grid values; null when the action is rejected
reducer(state, action) ==
  IF state.items[action.id] = Null THEN Null
  ELSE LET it == Val(state.items[action.id]) IN
    IF action.type = "move"
    THEN IF IsFinite(action.x) /\ IsFinite(action.y) /\ action.x >= 0 /\ action.y >= 0
         THEN Some([state EXCEPT !.items[action.id] =
                      Some([it EXCEPT !.x = action.x, !.y = action.y])])
         ELSE Null
    ELSE IF IsFinite(action.w) /\ IsFinite(action.h) /\ action.w >= 1 /\ action.h >= 1
         THEN Some([state EXCEPT !.items[action.id] =
                      Some([it EXCEPT !.w = action.w, !.h = action.h])])
         ELSE Null

\* (mutant) the listener skips a state equal to the cached one
onStoreChangeIfChanged(w, s) ==
  IF subs[s] > 0
  THEN IF w.storeState[s] = w.snap THEN [w EXCEPT !.notified = @ \cup {s}]
       ELSE [w EXCEPT !.snap = w.storeState[s], !.dirty = TRUE, !.notified = @ \cup {s}]
  ELSE w
\* the listener the hook subscribes: () => setState(store.getState())
onStoreChange(w, s) ==
  IF subs[s] > 0
  THEN [w EXCEPT !.snap = w.storeState[s], !.dirty = TRUE, !.notified = @ \cup {s}]
  ELSE w

\* store.commit + notification of the subscribers
notify(w, s, state) == onStoreChange([w EXCEPT !.storeState[s] = state], s)

\* store.dispatch(action)
dispatch(w, s, action) ==
  LET logged == [w EXCEPT !.out = Append(@, [store |-> s, action |-> action])]
      next == reducer(w.storeState[s], action)
  IN IF next = Null THEN logged ELSE notify(logged, s, Val(next))


\* -------------------------------------------------------- GridLayout
\* const columns = columnsProp ?? columnsFromStore (fluid mode);
\* const { items, columns } = useLayoutState(store) (fixed mode)
Columns(c, state) ==
  IF c.mode = "fluid" /\ c.columnsProp # Null THEN Val(c.columnsProp)
  ELSE state.columns

\* the cell width a tick uses: from the measured rect (fluid), the prop (fixed)
CellWidthOf(c, width, columns) ==
  IF c.mode = "fluid" THEN getCellWidthFromRect(width, columns, c.cellWidth)
  ELSE c.cellWidth

\* closures of a render: what the callbacks of the drag effect and of the
\* resize effect read
DragCap(c, rr) ==
  [drag |-> rr.drag, resize |-> Null, items |-> Null,
   columns |-> Columns(c, rr.snap), store |-> rr.store]
ResizeCap(c, rr) ==
  [drag |-> Null, resize |-> rr.resize, items |-> Some(rr.snap.items),
   columns |-> Columns(c, rr.snap), store |-> rr.store]

\* the world a handler acts on: the store states, the hook states, the
\* window listeners, the actions dispatched, whether an update was queued
\* and the stores whose notification reached the hook
World ==
  [storeState |-> storeState, snap |-> snap, drag |-> drag, resize |-> resize,
   listeners |-> listeners, out |-> <<>>, dirty |-> FALSE, notified |-> {}]

\* the preview a drag tick computes from the pointer and the live rect
moveGrid(c, cap, p, width) ==
  LET cw == CellWidthOf(c, width, cap.columns)
      gridX == IF c.mode = "fluid"
               THEN MathMax(0, MathMin(cap.columns - 1, RoundDiv(p[1], cw)))
               ELSE pixelToGridX(p[1], c.cellWidth, cap.columns)
      gridY == pixelToGridY(p[2], c.cellHeight)
  IN <<gridX, gridY>>

handleMove(w, c, cap, p, width) ==
  IF cap.drag = Null \/ ~mounted THEN w
  ELSE LET xy == moveGrid(c, cap, p, width) IN
    \* setDrag((prev) => (prev ? { ...prev, gridX, gridY } : null))
    IF w.drag = Null THEN w
    ELSE [w EXCEPT !.drag = Some([Val(w.drag) EXCEPT !.gridX = xy[1], !.gridY = xy[2]]),
                   !.dirty = TRUE]

handleMoveEnd(w, cap) ==
  IF cap.drag # Null
  THEN LET d == Val(cap.drag)
           w1 == dispatch(w, cap.store, MoveAction(d.id, d.gridX, d.gridY))
       IN [w1 EXCEPT !.drag = Null, !.dirty = TRUE]
  ELSE w

\* the size a resize tick computes for the item it found
resizeGrid(c, cap, item, p, width) ==
  LET cw == CellWidthOf(c, width, cap.columns)
      baseLeft == item.x * cw
      baseTop == item.y * c.cellHeight
      pixelW == MathMax(cw, p[1] - baseLeft)
      pixelH == MathMax(c.cellHeight, p[2] - baseTop)
      gw == IF c.mode = "fluid" THEN MathMax(1, RoundDiv(pixelW, cw))
            ELSE pixelToGridW(pixelW, c.cellWidth)
  IN <<MathMin(cap.columns - item.x, gw), pixelToGridH(pixelH, c.cellHeight)>>

\* (mutant) a tick whose item is gone ends the gesture
handleResizeDropsGesture(w, c, cap, p, width) ==
  IF cap.resize = Null \/ ~mounted THEN w
  ELSE LET id == Val(cap.resize).id
           found == Val(cap.items)[id]
       IN IF found = Null THEN [w EXCEPT !.resize = Null, !.dirty = TRUE]
          ELSE LET wh == resizeGrid(c, cap, Val(found), p, width)
               IN dispatch(w, cap.store, ResizeAction(id, wh[1], wh[2]))
handleResize(w, c, cap, p, width) ==
  IF cap.resize = Null \/ ~mounted THEN w
  ELSE LET id == Val(cap.resize).id
           found == Val(cap.items)[id]
       IN IF found = Null THEN w
          ELSE LET wh == resizeGrid(c, cap, Val(found), p, width)
               IN dispatch(w, cap.store, ResizeAction(id, wh[1], wh[2]))

\* (mutant) the end of a resize keeps the resize state
handleResizeEndKeeps(w) == w
handleResizeEnd(w) == [w EXCEPT !.resize = Null, !.dirty = TRUE]

\* window listeners an effect run registers (none when it returned early)
Listener(ev, kind, cap) == [ev |-> ev, kind |-> kind, cap |-> cap]
DragListeners(cap) ==
  IF cap.drag = Null THEN {}
  ELSE {Listener("mousemove", "drag", cap), Listener("mouseup", "drag", cap)}
ResizeListeners(cap) ==
  IF cap.resize = Null THEN {}
  ELSE {Listener("mousemove", "resize", cap), Listener("mouseup", "resize", cap)}

\* the drag effect's onUp, the resize effect's onUp
onUpDrag(w, cap) ==
  [handleMoveEnd(w, cap) EXCEPT !.listeners = @ \ DragListeners(cap)]
\* (mutant) pointer-up commits the size captured at pointer-down
onUpResizeCommits(w, cap) ==
  LET rs == Val(cap.resize)
      w1 == dispatch(handleResizeEnd(w), cap.store, ResizeAction(rs.id, rs.startW, rs.startH))
  IN [w1 EXCEPT !.listeners = @ \ ResizeListeners(cap)]
onUpResize(w, cap) ==
  [handleResizeEnd(w) EXCEPT !.listeners = @ \ ResizeListeners(cap)]

\* one listener called with an event
callListener(w, c, l, p, width) ==
  IF l.ev = "mousemove"
  THEN IF l.kind = "drag" THEN handleMove(w, c, l.cap, p, width)
       ELSE handleResize(w, c, l.cap, p, width)
  ELSE IF l.kind = "drag" THEN onUpDrag(w, l.cap) ELSE onUpResize(w, l.cap)

\* window dispatches an event to the listeners registered for it; a listener
\* removed by an earlier one is not called
RECURSIVE fire(_, _, _, _, _)
fire(w, c, todo, p, width) ==
  LET live == todo \cap w.listeners IN
  IF live = {} THEN w
  ELSE LET l == CHOOSE x \in live : TRUE
       IN fire(callListener(w, c, l, p, width), c, live \ {l}, p, width)


\* (mutant) the initial preview is the grid origin
onPanelMouseDownAtOrigin(w, c, id, item, button) ==
  IF ~c.draggable \/ button # 0 THEN w
  ELSE [w EXCEPT !.drag = Some([id |-> id, gridX |-> 0, gridY |-> 0]),
                 !.dirty = TRUE]
\* (mutant) the panel's handler without the e.button check
onPanelMouseDownAnyButton(w, c, id, item, button) ==
  IF ~c.draggable THEN w
  ELSE [w EXCEPT !.drag = Some([id |-> id, gridX |-> item.x, gridY |-> item.y]),
                 !.dirty = TRUE]
onPanelMouseDown(w, c, id, item, button) ==
  IF ~c.draggable \/ button # 0 THEN w
  ELSE [w EXCEPT !.drag = Some([id |-> id, gridX |-> item.x, gridY |-> item.y]),
                 !.dirty = TRUE]

\* (mutant) the handle's handler without e.stopPropagation()
onResizeHandleMouseDownBubbles(w, c, id, item, button) ==
  IF ~c.resizable \/ button # 0 THEN [w |-> w, stop |-> FALSE]
  ELSE [w |-> [w EXCEPT !.resize = Some([id |-> id, startW |-> item.w, startH |-> item.h]),
                        !.dirty = TRUE],
        stop |-> FALSE]
\* stop: the event does not reach the panel's onMouseDown
onResizeHandleMouseDown(w, c, id, item, button) ==
  IF ~c.resizable \/ button # 0 THEN [w |-> w, stop |-> FALSE]
  ELSE [w |-> [w EXCEPT !.resize = Some([id |-> id, startW |-> item.w, startH |-> item.h]),
                        !.dirty = TRUE],
        stop |-> TRUE]

\* the render output: for each item of the snapshot the live panel's grid
\* position and size and, for the drag target, the placeholder
isDragging(rr, id) == rr.drag # Null /\ Val(rr.drag).id = id
\* (mutant) the drag target's panel stays at the committed position
renderItemAtCommitted(rr, id, item) ==
  [displayX |-> item.x, displayY |-> item.y, w |-> item.w, h |-> item.h,
   placeholder |-> IF isDragging(rr, id) THEN Some(item) ELSE Null]
renderItem(rr, id, item) ==
  LET dragging == isDragging(rr, id) IN
  [displayX |-> IF dragging THEN Val(rr.drag).gridX ELSE item.x,
   displayY |-> IF dragging THEN Val(rr.drag).gridY ELSE item.y,
   w |-> item.w, h |-> item.h,
   placeholder |-> IF dragging THEN Some(item) ELSE Null]
renderItems(rr) ==
  [id \in Ids |-> IF rr.snap.items[id] = Null THEN Null
                  ELSE Some(renderItem(rr, id, Val(rr.snap.items[id])))]

\* ------------------------------------------------------- useLayoutState
\* the effect of the hook for the store of the last render: the previous
\* run's unsubscribe, then (src/src/useLayoutState.ts only) the re-read of
\* getState(), then subscribe. h = [subs, snap, dirty]
\* (mutant) the hook's effect does not return unsubscribe
hookCleanupLeaks(h, eff) == h
hookCleanup(h, eff) ==
  IF eff = Null THEN h ELSE [h EXCEPT !.subs[Val(eff)] = @ - 1]
hookSubscribe(h, c, s) ==
  LET h1 == IF c.hook = "resync"
            THEN [h EXCEPT !.snap = storeState[s], !.dirty = TRUE]
            ELSE h
  IN [h1 EXCEPT !.subs[s] = @ + 1]
useLayoutStateEffect(h, c, eff, s) ==
  IF eff = Some(s) THEN h ELSE hookSubscribe(hookCleanup(h, eff), c, s)

\* the drag effect and the resize effect: the previous run's cleanup, then
\* the listeners of this run. Deps are compared by value: a run the model
\* skips would register listeners that capture the same values.
\* (mutant) the drag effect returns no cleanup
dragEffectNoCleanup(ls, eff, cap) ==
  IF eff = Some(cap) THEN ls ELSE ls \cup DragListeners(cap)
dragEffect(ls, eff, cap) ==
  IF eff = Some(cap) THEN ls
  ELSE (IF eff = Null THEN ls ELSE ls \ DragListeners(Val(eff))) \cup DragListeners(cap)
resizeEffect(ls, eff, cap) ==
  IF eff = Some(cap) THEN ls
  ELSE (IF eff = Null THEN ls ELSE ls \ ResizeListeners(Val(eff))) \cup ResizeListeners(cap)

\* unmount: the cleanups of the last effect runs
\* (mutant) the unmount cleanup leaves the drag listeners on window
dragCleanupLeaks(ls, eff) == ls
dragCleanup(ls, eff) == IF eff = Null THEN ls ELSE ls \ DragListeners(Val(eff))
resizeCleanup(ls, eff) == IF eff = Null THEN ls ELSE ls \ ResizeListeners(Val(eff))


\* ------------------------------------------------------------------ Init
Config(mode, hook, columnsProp, draggable, resizable) ==
  [mode |-> mode, hook |-> hook, columnsProp |-> columnsProp,
   draggable |-> draggable, resizable |-> resizable,
   cellWidth |-> cellWidth, cellHeight |-> cellHeight]
\* the two GridLayout variants, each with either hook, a columns override
\* below an item's x, and the view modes
Configs ==
  {Config("fluid", "resync", Null, TRUE, TRUE),
   Config("fluid", "resync", Some(2), TRUE, TRUE),
   Config("fixed", "plain", Null, TRUE, TRUE),
   Config("fixed", "resync", Null, TRUE, FALSE),
   Config("fluid", "plain", Null, FALSE, TRUE)}

InitStates ==
  [s \in Stores |->
     IF s = "s1"
     THEN [items |-> [i \in Ids |-> IF i = "a" THEN Some(Item(2, 1, 1, 1))
                                    ELSE Some(Item(0, 0, 2, 2))],
           columns |-> 4]
     ELSE [items |-> [i \in Ids |-> IF i = "a" THEN Some(Item(3, 0, 1, 1)) ELSE Null],
           columns |-> 4]]

NoGesture ==
  [kind |-> "none", id |-> "a", start |-> <<0, 0>>, moves |-> 0, proc |-> 0,
   res |-> 0, other |-> 0, last |-> Null, pure |-> FALSE, ended |-> FALSE]
NoDown == [target |-> "none", button |-> 0, idle |-> FALSE]
Down(target, button, idle) == [target |-> target, button |-> button, idle |-> idle]
NoCalc == [op |-> "none"]

\* the component after its first render: useState(() => store.getState())
\* has read the store, no effect has run yet
FirstRender ==
  /\ store = "s1"
  /\ storeState = InitStates
  /\ subs = [s \in Stores |-> 0]
  /\ mounted = TRUE
  /\ snap = InitStates["s1"]
  /\ drag = Null
  /\ resize = Null
  /\ r = [drag |-> Null, resize |-> Null, snap |-> InitStates["s1"], store |-> "s1"]
  /\ hookEff = Null
  /\ dragEff = Null
  /\ resizeEff = Null
  /\ listeners = {}
  /\ needRender = FALSE
  /\ needEffects = TRUE
  /\ sync = FALSE
  /\ out = <<>>
  /\ lastEv = "init"
  /\ g = NoGesture
  /\ overlap = FALSE
  /\ since = FALSE
  /\ dn = NoDown
  /\ cnt = 0
  /\ calc = NoCalc
Init ==
  /\ cfg \in Configs
  /\ FirstRender

\* --------------------------------------------------------------- actions
\* what a handler did to the world becomes the next state; the updates of a
\* discrete event are flushed before the next event
Commit(w, discrete) ==
  /\ storeState' = w.storeState
  /\ snap' = w.snap
  /\ drag' = w.drag
  /\ resize' = w.resize
  /\ listeners' = w.listeners
  /\ out' = w.out
  /\ needRender' = (needRender \/ (w.dirty /\ mounted))
  /\ sync' = (sync \/ (discrete /\ w.dirty /\ mounted))
  /\ since' = (since \/ (hookEff # Null /\ Val(hookEff) \in w.notified))
  /\ UNCHANGED <<cfg, store, subs, mounted, r, hookEff, dragEff, resizeEff,
                 needEffects, calc>>

Active == drag # Null \/ resize # Null

CountType(seq, t) == Cardinality({i \in 1..Len(seq) : seq[i].action.type = t})

\* primary or secondary button pressed on the body of a rendered panel
PanelDown(id, button) ==
  /\ mounted /\ ~sync /\ cnt < MaxEvents
  /\ r.snap.items[id] # Null
  /\ LET w == onPanelMouseDown(World, cfg, id, Val(r.snap.items[id]), button) IN
     /\ Commit(w, TRUE)
     /\ g' = IF w.dirty
             THEN [NoGesture EXCEPT !.kind = "drag", !.id = id, !.pure = ~Active,
                                    !.start = <<Val(r.snap.items[id]).x,
                                                Val(r.snap.items[id]).y>>]
             ELSE g
     /\ overlap' = (overlap \/ (w.dirty /\ Active))
  /\ dn' = Down("panel", button, ~Active)
  /\ lastEv' = "down"
  /\ cnt' = cnt + 1

\* button pressed on the resize handle of a rendered panel; the event
\* bubbles to the panel unless the handler stopped it
HandleDown(id, button) ==
  /\ mounted /\ ~sync /\ cnt < MaxEvents
  /\ r.snap.items[id] # Null
  /\ cfg.resizable
  /\ LET item == Val(r.snap.items[id])
         h == onResizeHandleMouseDown(World, cfg, id, item, button)
         w == IF h.stop THEN h.w ELSE onPanelMouseDown(h.w, cfg, id, item, button)
     IN
     /\ Commit(w, TRUE)
     /\ g' = IF w.dirty
             THEN [NoGesture EXCEPT
                     !.kind = IF w.resize # resize THEN "resize" ELSE "drag",
                     !.id = id,
                     !.start = <<item.x, item.y>>,
                     !.pure = ~Active /\ ~(w.resize # resize /\ w.drag # drag)]
             ELSE g
     /\ overlap' = (overlap \/ (w.dirty /\ Active))
  /\ dn' = Down("handle", button, ~Active)
  /\ lastEv' = "down"
  /\ cnt' = cnt + 1

MoveListeners == {l \in listeners : l.ev = "mousemove"}
\* the snapshot a resize tick reads (the items of the render whose effects
\* ran last) holds item id
TickSnapshotHas(id) ==
  /\ resizeEff # Null
  /\ Val(Val(resizeEff).items)[id] # Null
UpListeners == {l \in listeners : l.ev = "mouseup"}

\* the pointer moves: window's mousemove listeners are called
MouseMove(p, width) ==
  /\ ~sync /\ cnt < MaxEvents
  /\ listeners # {} \/ ~mounted
  /\ LET w == fire(World, cfg, MoveListeners, p, width)
         dl == {l \in MoveListeners : l.kind = "drag" /\ l.cap.drag # Null}
     IN
     /\ Commit(w, FALSE)
     /\ g' = [g EXCEPT
               !.moves = @ + 1,
               !.proc = @ + (IF TickSnapshotHas(g.id) THEN 1 ELSE 0),
               !.res = @ + CountType(w.out, "resize"),
               !.other = @ + CountType(w.out, "move"),
               !.last = IF dl = {} THEN @
                        ELSE Some(moveGrid(cfg, (CHOOSE l \in dl : TRUE).cap, p, width))]
  /\ lastEv' = "move"
  /\ dn' = NoDown
  /\ cnt' = cnt + 1
  /\ UNCHANGED overlap

\* the button is released: window's mouseup listeners are called
MouseUp ==
  /\ ~sync /\ cnt < MaxEvents
  /\ listeners # {} \/ ~mounted
  /\ LET w == fire(World, cfg, UpListeners, <<0, 0>>, 0) IN
     /\ Commit(w, TRUE)
     /\ g' = [g EXCEPT
               !.res = @ + CountType(w.out, "resize"),
               !.other = @ + CountType(w.out, "move"),
               !.pure = @ /\ ~g.ended,
               !.ended = TRUE]
  /\ lastEv' = "up"
  /\ dn' = NoDown
  /\ cnt' = cnt + 1
  /\ UNCHANGED overlap

\* states another client of the store can commit: the same layout again,
\* item "a" removed, item "a" put (back) at another place
ExternalStates(state) ==
  {state,
   [state EXCEPT !.items["a"] = Null],
   [state EXCEPT !.items["a"] = Some(Item(1, 0, 2, 1))]}

\* a committed change of a store not made by this component, and the
\* notification of its subscribers
StoreChange(s, state) ==
  /\ ~sync /\ cnt < MaxEvents
  /\ Commit(notify(World, s, state), FALSE)
  /\ lastEv' = IF subs[s] > 0 THEN "notified" ELSE "ext"
  /\ dn' = NoDown
  /\ cnt' = cnt + 1
  /\ UNCHANGED <<g, overlap>>

\* the parent renders the component with another store
SwapStore(s) ==
  /\ mounted /\ ~sync /\ cnt < MaxEvents
  /\ s # store
  /\ store' = s
  /\ needRender' = TRUE
  /\ out' = <<>>
  /\ lastEv' = "swap"
  /\ cnt' = cnt + 1
  /\ g' = [g EXCEPT !.pure = FALSE]
  /\ dn' = NoDown
  /\ UNCHANGED <<cfg, storeState, subs, mounted, snap, drag, resize, r, hookEff,
                 dragEff, resizeEff, listeners, needEffects, sync, overlap, since,
                 calc>>

\* the component function runs: the callbacks of this render close over the
\* current hook states and props
Render ==
  /\ mounted /\ needRender /\ ~needEffects
  /\ r' = [drag |-> drag, resize |-> resize, snap |-> snap, store |-> store]
  /\ needRender' = FALSE
  /\ needEffects' = TRUE
  /\ out' = <<>>
  /\ lastEv' = "render"
  /\ dn' = NoDown
  /\ UNCHANGED <<cfg, store, storeState, subs, mounted, snap, drag, resize, hookEff,
                 dragEff, resizeEff, listeners, sync, g, overlap, since, cnt, calc>>

\* the passive effects of the last render run, in hook order
RunEffects ==
  /\ mounted /\ needEffects
  /\ LET h == useLayoutStateEffect([subs |-> subs, snap |-> snap, dirty |-> FALSE],
                                   cfg, hookEff, r.store)
     IN
     /\ subs' = h.subs
     /\ snap' = h.snap
     /\ needRender' = (needRender \/ h.dirty)
     /\ sync' = (sync /\ (needRender \/ h.dirty))
     /\ since' = (since /\ hookEff = Some(r.store))
  /\ hookEff' = Some(r.store)
  /\ listeners' = resizeEffect(dragEffect(listeners, dragEff, DragCap(cfg, r)),
                               resizeEff, ResizeCap(cfg, r))
  /\ dragEff' = Some(DragCap(cfg, r))
  /\ resizeEff' = Some(ResizeCap(cfg, r))
  /\ needEffects' = FALSE
  /\ out' = <<>>
  /\ lastEv' = "effects"
  /\ dn' = NoDown
  /\ UNCHANGED <<cfg, store, storeState, mounted, drag, resize, r, g, overlap, cnt,
                 calc>>

\* the component is unmounted: every effect's cleanup runs
Teardown ==
  /\ mounted /\ ~sync
  /\ mounted' = FALSE
  /\ subs' = hookCleanup([subs |-> subs], hookEff).subs
  /\ listeners' = resizeCleanup(dragCleanup(listeners, dragEff), resizeEff)
  /\ hookEff' = Null
  /\ dragEff' = Null
  /\ resizeEff' = Null
  /\ needRender' = FALSE
  /\ needEffects' = FALSE
  /\ out' = <<>>
  /\ lastEv' = "teardown"
  /\ g' = [g EXCEPT !.pure = FALSE]
  /\ since' = FALSE
  /\ dn' = NoDown
  /\ UNCHANGED <<cfg, store, storeState, snap, drag, resize, r, sync, overlap, cnt,
                 calc>>

Next ==
  \/ \E id \in Ids, b \in Buttons : PanelDown(id, b)
  \/ \E id \in Ids, b \in Buttons : HandleDown(id, b)
  \/ \E t \in Ticks : MouseMove(t[1], t[2])
  \/ MouseUp
  \/ \E s \in Stores : \E state \in ExternalStates(storeState[s]) : StoreChange(s, state)
  \/ \E s \in Stores : SwapStore(s)
  \/ Render
  \/ RunEffects
  \/ Teardown

Spec == Init /\ [][Next]_vars

\* ----------------------------------------------- a resize gesture under way
\* The component of Spec after its effects ran, the primary button went down
\* on the resize handle of item "a" and that update was flushed: the events
\* counted from here are those delivered during and after the gesture.
ResizingRender ==
  [drag |-> Null,
   resize |-> Some([id |-> "a", startW |-> Val(InitStates["s1"].items["a"]).w,
                    startH |-> Val(InitStates["s1"].items["a"]).h]),
   snap |-> InitStates["s1"], store |-> "s1"]
Resizing ==
  /\ store = "s1"
  /\ storeState = InitStates
  /\ subs = [s \in Stores |-> IF s = "s1" THEN 1 ELSE 0]
  /\ mounted = TRUE
  /\ snap = InitStates["s1"]
  /\ drag = Null
  /\ resize = ResizingRender.resize
  /\ r = ResizingRender
  /\ hookEff = Some("s1")
  /\ dragEff = Some(DragCap(cfg, ResizingRender))
  /\ resizeEff = Some(ResizeCap(cfg, ResizingRender))
  /\ listeners = ResizeListeners(ResizeCap(cfg, ResizingRender))
  /\ needRender = FALSE
  /\ needEffects = FALSE
  /\ sync = FALSE
  /\ out = <<>>
  /\ lastEv = "effects"
  /\ g = [NoGesture EXCEPT !.kind = "resize", !.id = "a", !.pure = TRUE,
                           !.start = <<Val(InitStates["s1"].items["a"]).x,
                                       Val(InitStates["s1"].items["a"]).y>>]
  /\ overlap = FALSE
  /\ since = FALSE
  /\ dn = NoDown
  /\ calc = NoCalc
InitResizing ==
  /\ cfg \in {c \in Configs : c.resizable /\ c.draggable /\ c.columnsProp = Null}
  /\ Resizing
  /\ cnt = 0
SpecResize == InitResizing /\ [][Next]_vars


\* ------------------------------------------- the coordinate transforms
\* The transforms of a render applied once to inputs: the props are any
\* cell sizes, the columns and the measured width any values for which the
\* effective cell width is a positive integer.
TransformConfigs ==
  {[Config(mode, "resync", Null, TRUE, TRUE)
      EXCEPT !.cellWidth = cw, !.cellHeight = ch] :
     mode \in {"fluid", "fixed"}, cw \in CellSizes, ch \in CellSizes}
InitTransform ==
  /\ cfg \in TransformConfigs
  /\ FirstRender

\* the state of the component, which applying a transform leaves alone
gridVars == <<cfg, store, storeState, subs, mounted, snap, drag, resize, r, hookEff,
              dragEff, resizeEff, listeners, needRender, needEffects, sync, out,
              lastEv, g, overlap, since, dn, cnt>>

\* the closure of a render with the given columns
TransformCap(columns) ==
  [drag |-> Null, resize |-> Null, items |-> Null, columns |-> columns, store |-> "s1"]

\* pointers of a resize tick: each axis takes every offset, left of and
\* above the container too
ResizePointers ==
  {<<px - 2, px - 2>> : px \in Pixels} \cup {<<px - 2, 5>> : px \in Pixels}
    \cup {<<5, px - 2>> : px \in Pixels}
    \cup {<<250, 250>>}

\* two drag ticks at pixel offsets p1 <= p2 (both axes) in a container of
\* the given columns, cwEff pixels per column wide
CalcMove ==
  /\ calc = NoCalc
  /\ \E p1 \in Pixels, p2 \in Pixels, columns \in ColumnCounts, cwEff \in CellSizes :
       /\ p1 <= p2
       /\ LET width == cwEff * columns IN
          calc' = [op |-> "move", p1 |-> p1, p2 |-> p2, columns |-> columns,
                   cw |-> CellWidthOf(cfg, width, columns),
                   g1 |-> moveGrid(cfg, TransformCap(columns), <<p1, p1>>, width),
                   g2 |-> moveGrid(cfg, TransformCap(columns), <<p2, p2>>, width)]
  /\ UNCHANGED gridVars

\* a grid position converted to pixels as grid * cellSize and back (fixed
\* mode's pixelToGridX, either mode's pixelToGridY)
CalcRoundTrip ==
  /\ calc = NoCalc
  /\ \E gx \in 0..MaxGrid, gy \in 0..MaxGrid, columns \in ColumnCounts :
       calc' = [op |-> "roundtrip", gx |-> gx, gy |-> gy, columns |-> columns,
                x |-> pixelToGridX(gx * cfg.cellWidth, cfg.cellWidth, columns),
                y |-> pixelToGridY(gy * cfg.cellHeight, cfg.cellHeight)]
  /\ UNCHANGED gridVars

\* a resize tick at pointer p on an item at (x, y)
CalcResize ==
  /\ calc = NoCalc
  /\ \E x \in 0..(MaxColumns - 1), y \in 0..2, p \in ResizePointers,
        columns \in ColumnCounts, cwEff \in CellSizes :
       LET width == cwEff * columns IN
       calc' = [op |-> "resize", x |-> x, y |-> y, p |-> p, columns |-> columns,
                cw |-> CellWidthOf(cfg, width, columns),
                wh |-> resizeGrid(cfg, TransformCap(columns), Item(x, y, 1, 1), p, width)]
  /\ UNCHANGED gridVars

NextTransform == CalcMove \/ CalcRoundTrip \/ CalcResize

SpecTransform == InitTransform /\ [][NextTransform]_vars

\* ---------------------------------------------------------------- claims
\* a gesture in the sense of the claims: started from Idle by the last
\* pointer-down, no other pointer-down, store replacement or teardown since
DragGesture == g.kind = "drag" /\ g.pure
ResizeGesture == g.kind = "resize" /\ g.pure

\* C1: in a drag gesture nothing is dispatched at pointer-down or by a
\* pointer-move, and pointer-up dispatches exactly one action: a "move" with
\* the id of the pressed item and the preview computed by the gesture's last
\* pointer-move.
C1_DragCommitsLastPreview ==
  DragGesture =>
    /\ lastEv \in {"down", "move"} => out = <<>>
    /\ lastEv = "up" =>
         /\ Len(out) = 1
         /\ out[1].action.type = "move"
         /\ out[1].action.id = g.id
         /\ g.last # Null =>
              <<out[1].action.x, out[1].action.y>> = Val(g.last)


C1_Witness ==
  /\ DragGesture /\ lastEv = "up" /\ g.last # Null
  /\ Len(out) = 1 /\ out[1].action.type = "move"

\* C2: in a resize gesture every pointer-move whose target item is in the
\* snapshot of that tick dispatches exactly one "resize" (for the pressed
\* item) and nothing else, pointer-down and pointer-up dispatch nothing: n
\* processed moves make exactly n resize dispatches and no other action.
C2_ResizeCommitsEveryTick ==
  ResizeGesture =>
    /\ g.res = g.proc
    /\ g.other = 0
    /\ lastEv \in {"down", "up"} => out = <<>>
    /\ lastEv = "move" =>
         /\ Len(out) <= 1
         /\ \A i \in 1..Len(out) :
              out[i].action.type = "resize" /\ out[i].action.id = g.id
C2_Witness ==
  ResizeGesture /\ lastEv = "up" /\ g.ended /\ g.moves = 2 /\ g.proc = 2 /\ g.res = 2

\* the item a resize tick found in its snapshot
TickItem(id) == Val(Val(Val(resizeEff).items)[id])

\* C3: every dispatched "resize" has item.x + w <= columns, for the item and
\* the columns the tick read.
C3_ResizeWidthWithinColumns ==
  lastEv = "move" =>
    \A i \in 1..Len(out) :
      out[i].action.type = "resize" =>
        /\ out[i].action.w # NaN
        /\ Leq(TickItem(out[i].action.id).x + out[i].action.w, Val(resizeEff).columns)

\* C4: every dispatched action carries in-range values: a "move" has
\* 0 <= x <= columns - 1 and y >= 0, a "resize" has w >= 1 and h >= 1, none
\* of them NaN.
C4_DispatchedValuesInRange ==
  \A i \in 1..Len(out) :
    LET a == out[i].action IN
    IF a.type = "move"
    THEN /\ Leq(0, a.x) /\ Leq(a.x, Val(dragEff).columns - 1)
         /\ Leq(0, a.y)
    ELSE Leq(1, a.w) /\ Leq(1, a.h)


\* C5 (as stated): at most one of the drag state and the resize state is
\* non-null in every reachable state, for every sequence of pointer events.
C5_AtMostOneGesture == ~(drag # Null /\ resize # Null)

\* C5 (amended): at most one of the drag state and the resize state is
\* non-null, in the hook states and in every render, as long as no
\* pointer-down started a gesture while another gesture was active.
C5_AtMostOneGestureSinglePointer ==
  ~overlap =>
    /\ ~(drag # Null /\ resize # Null)
    /\ ~(r.drag # Null /\ r.resize # Null)
C5_Witness ==
  /\ ~overlap /\ lastEv = "move" /\ g.kind = "resize" /\ g.res >= 1
  /\ resize # Null /\ drag = Null

ListenersOf(kind, ev) == {l \in listeners : l.kind = kind /\ l.ev = ev}

\* C6: window listeners are registered only while a gesture is active: none
\* when the controller is Idle with its effects settled, at most one move
\* and one up listener per gesture kind at any time, none right after the
\* pointer-up and none after teardown.
C6_ListenersOnlyWhileActive ==
  /\ (~Active /\ ~needRender /\ ~needEffects) => listeners = {}
  /\ (listeners # {} /\ ~sync) => Active
  /\ \A kind \in {"drag", "resize"}, ev \in {"mousemove", "mouseup"} :
       Cardinality(ListenersOf(kind, ev)) <= 1
  /\ lastEv = "up" => listeners = {}
  /\ ~mounted => listeners = {}
C6_Witness ==
  /\ lastEv = "up" /\ g.kind = "drag" /\ g.last # Null /\ g.ended /\ mounted
  /\ listeners = {} /\ dragEff # Null /\ Val(dragEff).drag # Null

\* C7: after a teardown during a drag no listener is left on window and no
\* action is dispatched, neither by the teardown nor by a pointer-move or
\* pointer-up delivered later.
C7_TeardownCommitsNothing ==
  ~mounted => (listeners = {} /\ out = <<>>)
C7_Witness ==
  /\ ~mounted /\ lastEv = "up" /\ drag # Null /\ g.kind = "drag" /\ g.last # Null
  /\ Val(drag).gridX # storeState[r.store].items[Val(drag).id][1].x

\* C8: once the hook's effect has run for a replaced store and the render
\* it asked for is done, the snapshot the hook returns is that store's
\* state, whether or not the store has notified.
C8_SwapResyncs ==
  (mounted /\ store = "s2" /\ hookEff = Some("s2") /\ ~needRender /\ ~needEffects)
    => r.snap = storeState["s2"]

\* C9: the hook holds at most one subscription, on the store of the effect's
\* last run; it has unsubscribed from every other store and, after teardown,
\* from all; once the effects of a render ran it is subscribed to that
\* render's store; and no step of the hook dispatches.
C9_OneSubscription ==
  /\ \A s \in Stores : subs[s] = (IF hookEff = Some(s) THEN 1 ELSE 0)
  /\ (mounted /\ ~needEffects) => hookEff = Some(r.store)
  /\ ~mounted => hookEff = Null
  /\ lastEv \in {"render", "effects", "ext", "notified", "swap", "teardown"} => out = <<>>
C9_Witness ==
  /\ mounted /\ store = "s2" /\ hookEff = Some("s2") /\ subs["s2"] = 1 /\ subs["s1"] = 0
  /\ lastEv = "effects"

\* C10: every notification of the subscribed store overwrites the cached
\* snapshot with getState() and queues a render, also when the state is
\* equal to the cached one; so once the subscribed store has notified, the
\* cached snapshot is the store's state.
C10_NotificationOverwrites ==
  /\ (hookEff # Null /\ since) => snap = storeState[Val(hookEff)]
  /\ lastEv = "notified" => (needRender /\ since)
C10_Witness ==
  /\ lastEv = "notified" /\ needRender /\ since
  /\ snap = r.snap /\ hookEff = Some(store)

\* C11: a pointer-move of a resize gesture whose target is not in the
\* snapshot of that tick dispatches nothing and leaves the gesture as it was
\* (resizing the same item, no drag); a pointer-move whose target is in the
\* snapshot dispatches one "resize" for it, also after a skipped one.
C11_MissingItemSkipsTick ==
  (ResizeGesture /\ lastEv = "move") =>
    IF TickSnapshotHas(g.id)
    THEN /\ Len(out) = 1
         /\ out[1].action.type = "resize"
         /\ out[1].action.id = g.id
    ELSE /\ out = <<>>
         /\ resize # Null
         /\ Val(resize).id = g.id
         /\ drag = Null
C11_Witness ==
  /\ ResizeGesture /\ lastEv = "move" /\ TickSnapshotHas(g.id)
  /\ g.moves - g.proc >= 1
  /\ Len(out) = 1 /\ out[1].action.type = "resize"
  /\ resize # Null /\ Val(resize).id = g.id

\* the part of the world the pointer-down handlers act on
Gestures == [drag |-> drag, resize |-> resize, dirty |-> FALSE]

\* C12: gesture start is gated. With draggable = false there is never a drag
\* state nor a dispatched "move"; with resizable = false never a resize state
\* nor a dispatched "resize", and the handle's handler of any render, called
\* all the same, changes nothing. A pointer-down on an Idle controller leaves it Idle when
\* the button is not the primary one or when it is on a panel body with
\* dragging disabled; a primary pointer-down on a resize handle starts
\* Resizing on that item and no drag.
C12_GestureStartGated ==
  /\ ~cfg.draggable =>
       /\ drag = Null /\ r.drag = Null
       /\ \A i \in 1..Len(out) : out[i].action.type # "move"
  /\ ~cfg.resizable =>
       /\ resize = Null /\ r.resize = Null
       /\ \A i \in 1..Len(out) : out[i].action.type # "resize"
  /\ lastEv = "render" =>
       \A id \in Ids, b \in Buttons :
         r.snap.items[id] # Null =>
           onResizeHandleMouseDown(Gestures, [cfg EXCEPT !.resizable = FALSE], id,
                                   Val(r.snap.items[id]), b).w = Gestures
  /\ (lastEv = "down" /\ dn.idle) =>
       /\ dn.button # 0 => ~Active
       /\ (dn.target = "panel" /\ ~cfg.draggable) => ~Active
       /\ (dn.target = "handle" /\ dn.button = 0) =>
            /\ g.kind = "resize"
            /\ resize # Null /\ Val(resize).id = g.id
            /\ drag = Null
C12_Witness ==
  /\ lastEv = "down" /\ dn.idle /\ dn.target = "handle" /\ dn.button = 0
  /\ cfg.draggable /\ g.kind = "resize" /\ g.id = "b"
  /\ resize # Null /\ Val(resize).id = "b" /\ drag = Null

\* C13: a drag gesture made of a pointer-down directly followed by the
\* pointer-up, no pointer-move in between, dispatches exactly one action: a
\* "move" of the pressed item to the position the item had in the snapshot
\* rendered at pointer-down.
C13_ClickCommitsStartPosition ==
  (DragGesture /\ lastEv = "up" /\ g.moves = 0) =>
    /\ Len(out) = 1
    /\ out[1].action = MoveAction(g.id, g.start[1], g.start[2])
C13_Witness ==
  /\ DragGesture /\ lastEv = "up" /\ g.moves = 0 /\ g.id = "a"
  /\ Len(out) = 1 /\ out[1].action = MoveAction("a", 2, 1)

\* C14: every gesture returns to Idle and Idle is not terminal: right after
\* a pointer-up on the mounted component the drag state and the resize state
\* are both null, whatever was active before, and from every Idle state a
\* primary pointer-down on a rendered panel (handle) starts a drag (resize)
\* again when dragging (resizing) is enabled.
C14_GestureReturnsToIdle ==
  /\ (lastEv = "up" /\ mounted) => (drag = Null /\ resize = Null)
  /\ (mounted /\ ~Active) =>
       \A id \in Ids :
         r.snap.items[id] # Null =>
           /\ cfg.draggable =>
                onPanelMouseDown(Gestures, cfg, id, Val(r.snap.items[id]), 0).drag
                  # Null
           /\ cfg.resizable =>
                onResizeHandleMouseDown(Gestures, cfg, id, Val(r.snap.items[id]),
                                        0).w.resize # Null
\* a second drag of item "a" is under way after a first one moved it to (0, 0)
C14_Witness ==
  /\ lastEv = "down" /\ dn.idle /\ g.id = "a" /\ g.kind = "drag" /\ drag # Null
  /\ storeState["s1"].items["a"] = Some(Item(0, 0, 1, 1))
  /\ g.start = <<0, 0>>

\* C15: for pixel offsets p1 <= p2, both >= 0, any columns > 0 and any
\* positive cell width, the gridX a drag tick computes (pixelToGridX in fixed
\* mode, the inlined computation in fluid mode) lies in 0..columns-1 and
\* gridX(p1) <= gridX(p2).
C15_GridXInRangeMonotone ==
  calc.op = "move" =>
    /\ Leq(0, calc.g1[1]) /\ Leq(calc.g1[1], calc.columns - 1)
    /\ Leq(0, calc.g2[1]) /\ Leq(calc.g2[1], calc.columns - 1)
    /\ Leq(calc.g1[1], calc.g2[1])
    /\ cfg.mode = "fixed" =>
         /\ calc.g1[1] = pixelToGridX(calc.p1, cfg.cellWidth, calc.columns)
         /\ calc.g2[1] = pixelToGridX(calc.p2, cfg.cellWidth, calc.columns)
C15_Witness ==
  /\ calc.op = "move" /\ cfg.mode = "fixed" /\ calc.columns >= 3
  /\ calc.p2 > calc.cw * calc.columns
  /\ calc.g1[1] = 1 /\ calc.g2[1] = calc.columns - 1

\* C16 (as stated): for every grid position (gx, gy) and every positive cell
\* size, pixelToGridX(gx * cellWidth) = gx and pixelToGridY(gy * cellHeight)
\* = gy.
C16_RoundTrip ==
  calc.op = "roundtrip" => (calc.x = calc.gx /\ calc.y = calc.gy)

\* C16 (amended): for every grid position (gx, gy) with gx <= columns - 1
\* and every positive cell size, pixelToGridX(gx * cellWidth) = gx and
\* pixelToGridY(gy * cellHeight) = gy; for gx > columns - 1 the result is
\* columns - 1.
C16_RoundTripInsideGrid ==
  calc.op = "roundtrip" =>
    /\ calc.y = calc.gy
    /\ calc.x = (IF calc.gx <= calc.columns - 1 THEN calc.gx ELSE calc.columns - 1)
C16_Witness ==
  /\ calc.op = "roundtrip" /\ cfg.cellWidth = 3 /\ cfg.cellHeight = 2
  /\ calc.gx = calc.columns - 1 /\ calc.gx >= 2 /\ calc.gy >= 3
  /\ calc.x = calc.gx /\ calc.y = calc.gy

\* the integer nearest to a / b, halves rounded up (a >= 1, b >= 1): the n
\* with n - 1/2 <= a / b < n + 1/2
Nearest(a, b) ==
  CHOOSE n \in 0..a : 2 * b * n <= 2 * a + b /\ 2 * a + b < 2 * b * (n + 1)
Larger(a, b) == IF a >= b THEN a ELSE b
Smaller(a, b) == IF a <= b THEN a ELSE b

\* C17: a resize tick at pointer (px, py) on an item at (x, y), with
\* effective cell width cw and cell height ch, computes
\* w = min(columns - x, max(1, round(max(cw, px - x*cw) / cw))) and
\* h = max(1, round(max(ch, py - y*ch) / ch)), round being nearest integer
\* with halves up; an item at (0, 0) with columns = 4, cw = ch = 100 and the
\* pointer at (250, 250) gets w = 3, h = 3.
C17_ResizeSizeFormula ==
  calc.op = "resize" =>
    LET cw == calc.cw
        ch == cfg.cellHeight
        w == Smaller(calc.columns - calc.x,
                     Larger(1, Nearest(Larger(cw, calc.p[1] - calc.x * cw), cw)))
        h == Larger(1, Nearest(Larger(ch, calc.p[2] - calc.y * ch), ch))
    IN /\ calc.wh = <<w, h>>
       /\ (calc.x = 0 /\ calc.y = 0 /\ calc.columns = 4 /\ cw = 100 /\ ch = 100
              /\ calc.p = <<250, 250>>) => calc.wh = <<3, 3>>
C17_Witness ==
  /\ calc.op = "resize" /\ calc.x = 0 /\ calc.y = 0 /\ calc.columns = 4
  /\ calc.cw = 100 /\ cfg.cellHeight = 100 /\ calc.p = <<250, 250>>
  /\ calc.wh = <<3, 3>>

\* C18: every resize tick computes from the geometry the store holds at the
\* moment of the tick: the item a dispatched "resize" was computed from has
\* the x and y the store has committed for it (a resize leaves them as they
\* are), and is an item of the store.
C18_TickReadsCommittedGeometry ==
  lastEv = "move" =>
    \A i \in 1..Len(out) :
      out[i].action.type = "resize" =>
        LET cur == storeState[out[i].store].items[out[i].action.id]
            used == TickItem(out[i].action.id)
        IN /\ cur # Null
           /\ Val(cur).x = used.x
           /\ Val(cur).y = used.y

\* C19: every render (the output stays until the next one) shows every item
\* of its snapshot:
\* an item that is not the drag target at its committed (x, y) without a
\* placeholder, the drag target at the preview (gridX, gridY) with a
\* placeholder at its committed position and size, and every item, the drag
\* and the resize target too, with the committed (w, h) of the snapshot. No
\* "move" is dispatched, so no preview reaches a store, by any step other
\* than a pointer-up.
C19_RenderPlacement ==
  /\ lastEv \in {"init", "render"} =>
     LET rendered == renderItems(r) IN
     \A id \in Ids :
       IF r.snap.items[id] = Null THEN rendered[id] = Null
       ELSE LET item == Val(r.snap.items[id])
                shown == Val(rendered[id])
            IN /\ shown.w = item.w /\ shown.h = item.h
               /\ IF r.drag # Null /\ Val(r.drag).id = id
                  THEN /\ shown.displayX = Val(r.drag).gridX
                       /\ shown.displayY = Val(r.drag).gridY
                       /\ shown.placeholder = Some(item)
                  ELSE /\ shown.displayX = item.x
                       /\ shown.displayY = item.y
                       /\ shown.placeholder = Null
  /\ lastEv # "up" => \A i \in 1..Len(out) : out[i].action.type # "move"
C19_Witness ==
  /\ lastEv = "render" /\ r.drag # Null /\ Val(r.drag).id = "a"
  /\ r.snap.items["a"] # Null /\ r.snap.items["b"] # Null
  /\ Val(r.drag).gridX # Val(r.snap.items["a"]).x
  /\ Val(renderItems(r)["a"]).displayX = Val(r.drag).gridX
  /\ Val(renderItems(r)["a"]).placeholder = r.snap.items["a"]
  /\ storeState[r.store].items["a"] = r.snap.items["a"]

\* C20: the "move" dispatched at the pointer-up of a drag carries the
\* preview computed by the most recent pointer-move, also when the pointer-up
\* is delivered before the render and the effects that follow that move, and
\* every action a pointer-up dispatches goes to the store the component
\* currently has.
C20_PointerUpCommitsLatest ==
  lastEv = "up" =>
    /\ \A i \in 1..Len(out) : out[i].store = store
    /\ (DragGesture /\ g.last # Null) =>
         \A i \in 1..Len(out) :
           out[i].action = MoveAction(g.id, Val(g.last)[1], Val(g.last)[2])

\* C21: no committed change is lost around subscription: once the hook's
\* effect has subscribed to the component's store and the render it may have
\* asked for is done, the snapshot the hook returns is the store's state,
\* also when the store has not notified since (a change committed between
\* the getState() of the first render and the subscription is not missed).
C21_NoChangeLostBeforeSubscribe ==
  (mounted /\ hookEff = Some(store) /\ ~since /\ ~needRender /\ ~needEffects)
    => r.snap = storeState[store]

====
